---- MODULE Spec2Model ----
(***************************************************************************)
(* A model of markup/_speedups.c: the Markup string type (escape,          *)
(* unescape, join, concat, %, *, the constructor) and _PushbackIterator.   *)
(*                                                                         *)
(* A text is a sequence of characters.  A character is a record            *)
(*     [c |-> the code unit, src |-> who contributed it]                   *)
(* where src is a history tag the C code does not read: "trusted" (a       *)
(* template, receiver, separator or raw-constructed Markup), "plain" (a    *)
(* non-Markup argument submitted with quote escaping on), "plainNQ" (the   *)
(* same with quote escaping off), "const" (one of the eight constants of   *)
(* init_constants) and "uninit" (a cell of a fresh buffer that was never   *)
(* written).  Every comparison the code makes reads .c only.               *)
(*                                                                         *)
(* A Python object is a record [type, str, truth, items]: its type, the    *)
(* text PyObject_Unicode gives for it, its truth value (PyObject_IsTrue)   *)
(* and, for a tuple, its items.  NULL is the C NULL an API returns with an *)
(* exception set.                                                          *)
(***************************************************************************)
EXTENDS Integers, Sequences, FiniteSets, TLC

VARIABLES
    arg,        \* escaping engine: the object the call is made on
    self,       \* composition: the Markup value that receives the next operator
    call,       \* the most recent call: its name and its inputs
    ret,        \* what the most recent call returned (an object, or NULL)
    nops,       \* calls made so far
    iterable,   \* _PushbackIterator.iterable: the items the source still holds
    buf,        \* _PushbackIterator.buf
    signalled,  \* history: a next() call has reported end-of-sequence
    trace       \* history: the last calls made on the iterator

vars == <<arg, self, call, ret, nops, iterable, buf, signalled, trace>>

-----------------------------------------------------------------------------
(* Bounds of the model *)

MaxPieces == 3      \* pieces concatenated into an input text of the escaping engine
MaxTplPieces == 3   \* pieces concatenated into a template, receiver or separator
MaxArgs == 2        \* items of a tuple of format arguments
MaxSeq == 2         \* elements of a joined sequence
MaxMul == 2         \* the largest repetition count
MaxOps == 2         \* operations chained on one Markup value
MaxSource == 3      \* items of the sequence a _PushbackIterator wraps
MaxBuf == 2         \* items pending in the pushback buffer
TraceLen == 4       \* calls the history of the iterator remembers

-----------------------------------------------------------------------------
(* Texts and objects *)

Lit(s, src) == [i \in 1..Len(s) |-> [c |-> s[i], src |-> src]]

Str(u) == [i \in 1..Len(u) |-> u[i].c]

Unicode(s) == [type |-> "unicode", str |-> s, truth |-> Len(s) > 0, items |-> <<>>]

Markup(s) == [type |-> "Markup", str |-> s, truth |-> Len(s) > 0, items |-> <<>>]

Tuple(xs) == [type |-> "tuple", str |-> <<>>, truth |-> Len(xs) > 0, items |-> xs]

NULL == [type |-> "NULL", str |-> <<>>, truth |-> FALSE, items |-> <<>>]

\* A bool passed for the quotes flag: Py_True or Py_False.
PyBool(b) ==
    [type |-> "bool",
     str |-> Lit(IF b THEN <<"T", "r", "u", "e">> ELSE <<"F", "a", "l", "s", "e">>, "plain"),
     truth |-> b, items |-> <<>>]

\* init_constants
amp1 == Lit(<<"&">>, "const")
amp2 == Lit(<<"&", "a", "m", "p", ";">>, "const")
lt1 == Lit(<<"<">>, "const")
lt2 == Lit(<<"&", "l", "t", ";">>, "const")
gt1 == Lit(<<">">>, "const")
gt2 == Lit(<<"&", "g", "t", ";">>, "const")
qt1 == Lit(<<"\"">>, "const")
qt2 == Lit(<<"&", "#", "3", "4", ";">>, "const")

\* PyObject_TypeCheck(o, &MarkupType)
PyObject_TypeCheck(o, type) == o.type = type

\* PyObject_Unicode(o): the text of o as an exact unicode object.
PyObject_Unicode(o) == Unicode(o.str)

\* PyObject_Not(o)
PyObject_Not(o) == ~o.truth

\* PyUnicode_Type.tp_new(type, args, NULL) with no or one positional argument.
unicode_new(type, args) ==
    IF Len(args) = 0
    THEN [type |-> type, str |-> <<>>, truth |-> FALSE, items |-> <<>>]
    ELSE LET u == PyObject_Unicode(args[1])
         IN [type |-> type, str |-> u.str, truth |-> u.truth, items |-> <<>>]

-----------------------------------------------------------------------------
(* PyUnicode_Format(format, args), for the conversions %s and %%.  The     *)
(* alphabet of the model holds no other conversion type, flag, width or    *)
(* mapping key, so every other character after % is the ValueError         *)
(* "unsupported format character".                                         *)

FormatError == [ok |-> FALSE, out |-> <<>>]

RECURSIVE FormatFrom(_, _, _, _)
FormatFrom(fmt, i, items, argidx) ==
    IF i > Len(fmt)
    THEN IF argidx <= Len(items)
         THEN FormatError             \* not all arguments converted
         ELSE [ok |-> TRUE, out |-> <<>>]
    ELSE IF fmt[i].c # "%"
    THEN LET rest == FormatFrom(fmt, i + 1, items, argidx)
         IN IF rest.ok THEN [ok |-> TRUE, out |-> <<fmt[i]>> \o rest.out] ELSE FormatError
    ELSE IF i = Len(fmt)
    THEN FormatError                  \* incomplete format
    ELSE IF fmt[i + 1].c = "%"
    THEN LET rest == FormatFrom(fmt, i + 2, items, argidx)
         IN IF rest.ok THEN [ok |-> TRUE, out |-> <<fmt[i + 1]>> \o rest.out] ELSE FormatError
    ELSE IF fmt[i + 1].c = "s"
    THEN IF argidx > Len(items)
         THEN FormatError             \* not enough arguments for format string
         ELSE LET rest == FormatFrom(fmt, i + 2, items, argidx + 1)
              IN IF rest.ok
                 THEN [ok |-> TRUE, out |-> PyObject_Unicode(items[argidx]).str \o rest.out]
                 ELSE FormatError
    ELSE FormatError                  \* unsupported format character

\* A tuple gives its items as the arguments; any other object is the only argument.
PyUnicode_Format(format, args) ==
    IF format.type \notin {"unicode", "Markup"}
    THEN NULL
    ELSE LET items == IF args.type = "tuple" THEN args.items ELSE <<args>>
             r == FormatFrom(format.str, 1, items, 1)
         IN IF r.ok THEN Unicode(r.out) ELSE NULL

-----------------------------------------------------------------------------
(* escape(text, quotes) *)

\* The first pass: the length of the escaped string.
RECURSIVE EscapedLen(_, _, _)
EscapedLen(in, quotes, i) ==
    IF i > Len(in) THEN 0
    ELSE (CASE in[i].c = "&" -> 5
            [] in[i].c = "\"" -> (IF quotes THEN 5 ELSE 1)
            [] in[i].c \in {"<", ">"} -> 4
            [] OTHER -> 1)
         + EscapedLen(in, quotes, i + 1)

\* PyUnicode_FromUnicode(NULL, len): a buffer of len cells, none written.
FreshBuffer(len) == [k \in 1..len |-> [c |-> "?", src |-> "uninit"]]

\* Py_UNICODE_COPY(outp, src, n) and *outp++ = ch: piece lands at cells
\* outp+1 .. outp+Len(piece) of the buffer.
Poke(out, outp, piece) ==
    [k \in 1..Len(out) |->
        IF k > outp /\ k <= outp + Len(piece) THEN piece[k - outp] ELSE out[k]]

\* A second pass that escapes '"' whatever the flag says.
EscapePieceAlwaysQuotes(ch, quotes) ==
    CASE ch.c = "&" -> amp2
      [] ch.c = "\"" -> qt2
      [] ch.c = "<" -> lt2
      [] ch.c = ">" -> gt2
      [] OTHER -> <<ch>>

\* What the second pass writes for one character of the input.
EscapePiece(ch, quotes) ==
    CASE ch.c = "&" -> amp2
      [] ch.c = "\"" -> (IF quotes THEN qt2 ELSE <<ch>>)
      [] ch.c = "<" -> lt2
      [] ch.c = ">" -> gt2
      [] OTHER -> <<ch>>

\* The second pass, from input index i with the write position at outp.
RECURSIVE EscapeWrite(_, _, _, _, _)
EscapeWrite(in, quotes, i, out, outp) ==
    IF i > Len(in) THEN out
    ELSE LET piece == EscapePiece(in[i], quotes)
         IN EscapeWrite(in, quotes, i + 1, Poke(out, outp, piece), outp + Len(piece))

RECURSIVE Markup_new(_)

escape(text, quotes) ==
    IF PyObject_TypeCheck(text, "Markup")
    THEN text
    ELSE LET in == PyObject_Unicode(text)
             len == EscapedLen(in.str, quotes, 1)
         IN IF len = Len(in.str)
            THEN Markup_new(<<in>>)
            ELSE Markup_new(<<Unicode(EscapeWrite(in.str, quotes, 1, FreshBuffer(len), 0))>>)

\* Markup_new(type, args, kwds) for type = Markup; args holds the positional arguments.
Markup_new(args) ==
    LET nargs == Len(args)
    IN IF nargs = 0 THEN unicode_new("Markup", args)
       ELSE IF nargs = 1 THEN unicode_new("Markup", args)
       ELSE LET text == args[1]
                args2 == [i \in 1..(nargs - 1) |-> escape(args[i + 1], TRUE)]
                tmp == PyUnicode_Format(text, Tuple(args2))
            IN IF tmp = NULL THEN NULL ELSE unicode_new("Markup", <<tmp>>)

\* PyArg_ParseTupleAndKeywords(args, kwds, "O|b", {"text", "quotes"}): the flag.
\* kwds is the set of keyword arguments, each a pair <<name, object>>.
ParseQuotes(args, kwds, name) ==
    IF Len(args) >= 2 THEN args[2].truth
    ELSE IF \E kw \in kwds : kw[1] = name THEN (CHOOSE kw \in kwds : kw[1] = name)[2].truth
    ELSE TRUE

\* Markup.escape(text, quotes=True), the class method, for type = Markup.
Markup_escape(args, kwds) ==
    LET text == args[1]
        quotes == ParseQuotes(args, kwds, "quotes")
    IN IF PyObject_Not(text) THEN Markup_new(args)
       ELSE IF PyObject_TypeCheck(text, "Markup") THEN text
       ELSE escape(text, quotes)

-----------------------------------------------------------------------------
(* Markup.unescape() *)

MatchAt(s, pat, i) ==
    /\ i + Len(pat) - 1 <= Len(s)
    /\ \A k \in 1..Len(pat) : s[i + k - 1].c = pat[k].c

\* PyUnicode_Replace(str, substr, replstr, -1): every occurrence, left to right.
RECURSIVE ReplaceFrom(_, _, _, _)
ReplaceFrom(s, pat, rep, i) ==
    IF i > Len(s) THEN <<>>
    ELSE IF MatchAt(s, pat, i) THEN rep \o ReplaceFrom(s, pat, rep, i + Len(pat))
    ELSE <<s[i]>> \o ReplaceFrom(s, pat, rep, i + 1)

\* A replace that scans again from the text it has just put in.
RECURSIVE ReplaceRescan(_, _, _, _)
ReplaceRescan(s, pat, rep, i) ==
    IF i > Len(s) THEN s
    ELSE IF MatchAt(s, pat, i)
    THEN ReplaceRescan(SubSeq(s, 1, i - 1) \o rep \o SubSeq(s, i + Len(pat), Len(s)), pat, rep, i)
    ELSE ReplaceRescan(s, pat, rep, i + 1)

PyUnicode_ReplaceRescan(str, substr, replstr) == ReplaceRescan(str, substr, replstr, 1)

PyUnicode_Replace(str, substr, replstr) == ReplaceFrom(str, substr, replstr, 1)

\* An unescape that restores '&' first instead of last.
Markup_unescapeAmpFirst(m) ==
    LET tmp == PyUnicode_Replace(m.str, amp2, amp1)
        tmp2 == PyUnicode_Replace(tmp, qt2, qt1)
        tmp3 == PyUnicode_Replace(tmp2, gt2, gt1)
    IN Unicode(PyUnicode_Replace(tmp3, lt2, lt1))

Markup_unescape(m) ==
    LET tmp == PyUnicode_Replace(m.str, qt2, qt1)
        tmp2 == PyUnicode_Replace(tmp, gt2, gt1)
        tmp3 == PyUnicode_Replace(tmp2, lt2, lt1)
    IN Unicode(PyUnicode_Replace(tmp3, amp2, amp1))

-----------------------------------------------------------------------------
(* Markup.join, +, % and * *)

\* PySequence_Check(seq): of the objects of the model, the tuple is the sequence.
PySequence_Check(seq) == seq.type = "tuple"

\* PyUnicode_Join(separator, seq)
RECURSIVE JoinFrom(_, _, _)
JoinFrom(sep, items, i) ==
    IF i > Len(items) THEN <<>>
    ELSE IF i = Len(items) THEN items[i].str
    ELSE items[i].str \o sep \o JoinFrom(sep, items, i + 1)

PyUnicode_Join(separator, seq) == Unicode(JoinFrom(separator.str, seq.items, 1))

\* A join that escapes its elements with quotes on, whatever the flag says.
Markup_joinQuotesOn(m, args, kwds) ==
    LET seq == args[1]
    IN IF ~PySequence_Check(seq) THEN NULL
       ELSE LET n == Len(seq.items)
                seq2 == [i \in 1..n |-> escape(seq.items[i], TRUE)]
            IN Markup_new(<<PyUnicode_Join(m, Tuple(seq2))>>)

\* m.join(seq, escape_quotes=True)
Markup_join(m, args, kwds) ==
    LET seq == args[1]
        quotes == ParseQuotes(args, kwds, "escape_quotes")
    IN IF ~PySequence_Check(seq) THEN NULL
       ELSE LET n == Len(seq.items)
                seq2 == [i \in 1..n |-> escape(seq.items[i], quotes)]
                tmp == PyUnicode_Join(m, Tuple(seq2))
            IN Markup_new(<<tmp>>)

\* PyUnicode_Concat(left, right)
PyUnicode_Concat(left, right) == Unicode(left.str \o right.str)

\* m + other
Markup_concat(m, other) ==
    LET tmp == escape(other, TRUE)
        tmp2 == PyUnicode_Concat(m, tmp)
    IN Markup_new(<<tmp2>>)

\* A % that hands the items of a tuple to the format unescaped.
Markup_modNoEscape(m, args) ==
    LET tmp == IF args.type = "tuple"
               THEN PyUnicode_Format(m, args)
               ELSE PyUnicode_Format(m, escape(args, TRUE))
    IN IF tmp = NULL THEN NULL ELSE unicode_new("Markup", <<tmp>>)

\* m % args
Markup_mod(m, args) ==
    LET tmp == IF args.type = "tuple"
               THEN LET nargs == Len(args.items)
                        args2 == [i \in 1..nargs |-> escape(args.items[i], TRUE)]
                    IN PyUnicode_Format(m, Tuple(args2))
               ELSE LET tmp2 == escape(args, TRUE)
                    IN PyUnicode_Format(m, tmp2)
    IN IF tmp = NULL THEN NULL ELSE unicode_new("Markup", <<tmp>>)

\* PyNumber_Multiply(unicode, num) for an int num: the text repeated.
RECURSIVE Repeat(_, _)
Repeat(s, n) == IF n <= 0 THEN <<>> ELSE s \o Repeat(s, n - 1)

PyNumber_Multiply(unicode, num) == Unicode(Repeat(unicode.str, num))

\* m * num
Markup_mul(m, num) ==
    LET unicode == PyObject_Unicode(m)
        result == PyNumber_Multiply(unicode, num)
    IN unicode_new("Markup", <<result>>)

-----------------------------------------------------------------------------
(* The escaping engine as a state machine: one object, one call of escape  *)
(* or Markup.escape on it, then unescape of what was returned.             *)

\* The pieces input texts are made of: the reserved characters, the tails of
\* the four entities and an ordinary character.
Pieces ==
    { <<"&">>, <<"<">>, <<">">>, <<"\"">>, <<"x">>,
      <<"a", "m", "p", ";">>, <<"l", "t", ";">>, <<"g", "t", ";">>, <<"#", "3", "4", ";">> }

RECURSIVE Texts(_)
Texts(n) ==
    IF n = 0 THEN {<<>>}
    ELSE LET shorter == Texts(n - 1)
         IN shorter \cup {p \o t : p \in Pieces, t \in shorter}

EscapeInputs ==
    {Unicode(Lit(t, "plain")) : t \in Texts(MaxPieces)}
        \cup {Markup(Lit(t, "trusted")) : t \in Texts(MaxPieces)}

NoCall == [op |-> "init", quotes |-> TRUE, passing |-> "none", input |-> NULL, recv |-> NULL]

IdleIterator ==
    /\ iterable = <<>>
    /\ buf = <<>>
    /\ signalled = FALSE
    /\ trace = <<>>

InitEscape ==
    /\ arg \in EscapeInputs
    /\ call = NoCall
    /\ ret = NULL
    /\ nops = 0
    /\ self = NULL
    /\ IdleIterator

\* escape(arg, quotes), the C function the other operations call.
EscapeCall(quotes) ==
    /\ call.op = "init"
    /\ ret' = escape(arg, quotes)
    /\ call' = [op |-> "escape", quotes |-> quotes, passing |-> "internal", input |-> arg,
                recv |-> NULL]
    /\ nops' = nops + 1
    /\ UNCHANGED <<arg, self, iterable, buf, signalled, trace>>

\* Markup.escape(arg), Markup.escape(arg, quotes) or Markup.escape(arg, quotes=quotes).
MarkupEscapeCall(quotes, passing) ==
    /\ call.op = "init"
    /\ passing = "default" => quotes
    /\ LET args == IF passing = "positional" THEN <<arg, PyBool(quotes)>> ELSE <<arg>>
           kwds == IF passing = "keyword" THEN {<<"quotes", PyBool(quotes)>>} ELSE {}
       IN ret' = Markup_escape(args, kwds)
    /\ call' = [op |-> "Markup.escape", quotes |-> quotes, passing |-> passing, input |-> arg,
                recv |-> NULL]
    /\ nops' = nops + 1
    /\ UNCHANGED <<arg, self, iterable, buf, signalled, trace>>

\* m.unescape(), on the Markup value the call before returned, or on arg itself.
UnescapeCall ==
    /\ call.op \in {"init", "escape", "Markup.escape"}
    /\ LET m == IF call.op = "init" THEN arg ELSE ret
       IN /\ m.type = "Markup"
          /\ ret' = Markup_unescape(m)
          /\ call' = [op |-> "unescape", quotes |-> call.quotes, passing |-> call.op, input |-> m,
                      recv |-> NULL]
    /\ nops' = nops + 1
    /\ UNCHANGED <<arg, self, iterable, buf, signalled, trace>>

NextEscape ==
    \/ \E quotes \in BOOLEAN : EscapeCall(quotes)
    \/ \E quotes \in BOOLEAN, passing \in {"default", "positional", "keyword"} :
          MarkupEscapeCall(quotes, passing)
    \/ UnescapeCall

SpecEscape == InitEscape /\ [][NextEscape]_vars

-----------------------------------------------------------------------------
(* escape(arg, quotes) one loop iteration at a time.  Here call is the        *)
(* activation of escape with its locals in, i, len, out (the characters of    *)
(* the allocated object) and outp (as an offset from out->str); pc is the     *)
(* loop the activation is in.                                                 *)

\* The first pass counting every " as one character, whatever the flag.
FirstPassSizeQuoteAsOne(ch, quotes) ==
    CASE ch.c = "&" -> 5
      [] ch.c = "\"" -> 1
      [] ch.c \in {"<", ">"} -> 4
      [] OTHER -> 1

\* What one iteration of the first loop adds to len.
FirstPassSize(ch, quotes) ==
    CASE ch.c = "&" -> 5
      [] ch.c = "\"" -> (IF quotes THEN 5 ELSE 1)
      [] ch.c \in {"<", ">"} -> 4
      [] OTHER -> 1

\* Entry: the type check, the conversion to unicode, len = 0 and i = 0.
EscapeEnter(quotes) ==
    /\ call.op = "init"
    /\ IF PyObject_TypeCheck(arg, "Markup")
       THEN /\ ret' = arg
            /\ call' = [op |-> "escape", quotes |-> quotes, pc |-> "returned",
                        in |-> NULL, i |-> 0, len |-> 0, out |-> <<>>, outp |-> 0]
       ELSE /\ ret' = ret
            /\ call' = [op |-> "escape", quotes |-> quotes, pc |-> "first",
                        in |-> PyObject_Unicode(arg), i |-> 0, len |-> 0, out |-> <<>>,
                        outp |-> 0]
    /\ nops' = nops + 1
    /\ UNCHANGED <<arg, self, iterable, buf, signalled, trace>>

\* One iteration of the first loop.
FirstPassStep ==
    /\ call.op = "escape" /\ call.pc = "first"
    /\ call.i < Len(call.in.str)
    /\ call' = [call EXCEPT !.len = @ + FirstPassSize(call.in.str[call.i + 1], call.quotes),
                            !.i = @ + 1]
    /\ UNCHANGED <<arg, self, ret, nops, iterable, buf, signalled, trace>>

\* The first loop is over: return in itself when nothing is to be escaped,
\* otherwise allocate len characters and point outp at the first of them.
FirstPassEnd ==
    /\ call.op = "escape" /\ call.pc = "first"
    /\ call.i = Len(call.in.str)
    /\ IF call.len = Len(call.in.str)
       THEN /\ ret' = Markup_new(<<call.in>>)
            /\ call' = [call EXCEPT !.pc = "returned"]
       ELSE /\ ret' = ret
            /\ call' = [call EXCEPT !.pc = "second", !.out = FreshBuffer(call.len),
                                    !.outp = 0, !.i = 0]
    /\ UNCHANGED <<arg, self, nops, iterable, buf, signalled, trace>>

\* One iteration of the second loop.  A copy that ends past the allocated
\* characters is undefined: the activation is then lost.
SecondPassStep ==
    /\ call.op = "escape" /\ call.pc = "second"
    /\ call.i < Len(call.in.str)
    /\ LET piece == EscapePiece(call.in.str[call.i + 1], call.quotes)
       IN IF call.outp + Len(piece) <= Len(call.out)
          THEN call' = [call EXCEPT !.out = Poke(call.out, call.outp, piece),
                                    !.outp = @ + Len(piece),
                                    !.i = @ + 1]
          ELSE call' = [call EXCEPT !.pc = "undefined"]
    /\ UNCHANGED <<arg, self, ret, nops, iterable, buf, signalled, trace>>

\* The second loop is over: out becomes the content of the Markup returned.
SecondPassEnd ==
    /\ call.op = "escape" /\ call.pc = "second"
    /\ call.i = Len(call.in.str)
    /\ ret' = Markup_new(<<Unicode(call.out)>>)
    /\ call' = [call EXCEPT !.pc = "written"]
    /\ UNCHANGED <<arg, self, nops, iterable, buf, signalled, trace>>

NextTwoPass ==
    \/ \E quotes \in BOOLEAN : EscapeEnter(quotes)
    \/ FirstPassStep
    \/ FirstPassEnd
    \/ SecondPassStep
    \/ SecondPassEnd

SpecTwoPass == InitEscape /\ [][NextTwoPass]_vars

-----------------------------------------------------------------------------
(* Composition as a state machine: a Markup value is constructed raw and   *)
(* receives join, +, %, * and constructor calls; what a call returns is    *)
(* the receiver of the next one.                                           *)

\* An object that is no text: its text is <o>, its truth value is its own.
Object(truth, src) ==
    [type |-> "object", str |-> Lit(<<"<", "o", ">">>, src), truth |-> truth, items |-> <<>>]

RECURSIVE SeqsUpTo(_, _)
SeqsUpTo(S, n) ==
    IF n = 0 THEN {<<>>}
    ELSE LET shorter == SeqsUpTo(S, n - 1)
         IN shorter \cup {<<x>> \o t : x \in S, t \in {u \in shorter : Len(u) = n - 1}}

RECURSIVE Flat(_)
Flat(ss) == IF ss = <<>> THEN <<>> ELSE Head(ss) \o Flat(Tail(ss))

TplPieces == { <<"%", "s">>, <<"<">>, <<"&">>, <<"%", "%">> }

\* Trusted texts: templates, receivers and separators.
Templates == {Lit(Flat(ps), "trusted") : ps \in SeqsUpTo(TplPieces, MaxTplPieces)}

\* Arguments of one call: plain texts, tagged with the quote flag they are
\* submitted under, and Markup values.
PlainArgs(quotes) ==
    LET src == IF quotes THEN "plain" ELSE "plainNQ"
    IN {Unicode(Lit(t, src)) : t \in {<<>>, <<"<">>, <<"&", "\"", "x">>}}

MarkupArgs == {Markup(Lit(<<"<", "b", ">">>, "trusted"))}

ComposeArgs(quotes) == PlainArgs(quotes) \cup MarkupArgs

InitMarkup(texts) ==
    /\ self \in {Markup_new(<<>>)} \cup {Markup_new(<<Unicode(t)>>) : t \in texts}
    /\ arg = NULL
    /\ call = NoCall
    /\ ret = NULL
    /\ nops = 0
    /\ IdleIterator

Returned(r) == IF r = NULL THEN self ELSE r

\* Markup(template, arg1, ..., argN)
NewCall(template, rest) ==
    /\ Len(rest) >= 1
    /\ ret' = Markup_new(<<template>> \o rest)
    /\ call' = [op |-> "new", quotes |-> TRUE, passing |-> "positional",
                input |-> Tuple(rest), recv |-> template]
    /\ self' = Returned(ret')
    /\ nops' = nops + 1
    /\ UNCHANGED <<arg, iterable, buf, signalled, trace>>

\* self % args, args a tuple or any other object
ModCall(args) ==
    /\ ret' = Markup_mod(self, args)
    /\ call' = [op |-> "mod", quotes |-> TRUE, passing |-> "operator",
                input |-> args, recv |-> self]
    /\ self' = Returned(ret')
    /\ nops' = nops + 1
    /\ UNCHANGED <<arg, iterable, buf, signalled, trace>>

\* self.join(seq), self.join(seq, quotes) or self.join(seq, escape_quotes=quotes)
JoinCall(seq, quotes, passing) ==
    /\ passing = "default" => quotes
    /\ LET args == IF passing = "positional" THEN <<Tuple(seq), PyBool(quotes)>>
                   ELSE <<Tuple(seq)>>
           kwds == IF passing = "keyword" THEN {<<"escape_quotes", PyBool(quotes)>>} ELSE {}
       IN ret' = Markup_join(self, args, kwds)
    /\ call' = [op |-> "join", quotes |-> quotes, passing |-> passing,
                input |-> Tuple(seq), recv |-> self]
    /\ self' = Returned(ret')
    /\ nops' = nops + 1
    /\ UNCHANGED <<arg, iterable, buf, signalled, trace>>

\* self + other
ConcatCall(other) ==
    /\ ret' = Markup_concat(self, other)
    /\ call' = [op |-> "concat", quotes |-> TRUE, passing |-> "operator",
                input |-> other, recv |-> self]
    /\ self' = Returned(ret')
    /\ nops' = nops + 1
    /\ UNCHANGED <<arg, iterable, buf, signalled, trace>>

\* self * num
MulCall(num) ==
    /\ ret' = Markup_mul(self, num)
    /\ call' = [op |-> "mul", quotes |-> TRUE, passing |-> "operator",
                input |-> NULL, recv |-> self]
    /\ self' = Returned(ret')
    /\ nops' = nops + 1
    /\ UNCHANGED <<arg, iterable, buf, signalled, trace>>

\* Markup.escape(text), Markup.escape(text, quotes) or Markup.escape(text, quotes=quotes)
EscapeClassCall(text, quotes, passing) ==
    /\ passing = "default" => quotes
    /\ LET args == IF passing = "positional" THEN <<text, PyBool(quotes)>> ELSE <<text>>
           kwds == IF passing = "keyword" THEN {<<"quotes", PyBool(quotes)>>} ELSE {}
       IN ret' = Markup_escape(args, kwds)
    /\ call' = [op |-> "Markup.escape", quotes |-> quotes, passing |-> passing,
                input |-> text, recv |-> NULL]
    /\ self' = Returned(ret')
    /\ nops' = nops + 1
    /\ UNCHANGED <<arg, iterable, buf, signalled, trace>>

Passings == {"default", "positional", "keyword"}

(* One composition call on a freshly constructed receiver. *)

InitCompose == InitMarkup(Templates)

\* The call is the first one made on the receiver.
Fresh == nops = 0

NextCompose ==
    \/ \E rest \in SeqsUpTo(ComposeArgs(TRUE), MaxArgs) :
          Fresh /\ NewCall(PyObject_Unicode(self), rest)
    \/ \E items \in SeqsUpTo(ComposeArgs(TRUE), MaxArgs) : Fresh /\ ModCall(Tuple(items))
    \/ \E single \in ComposeArgs(TRUE) : Fresh /\ ModCall(single)
    \/ \E quotes \in BOOLEAN, passing \in Passings :
          \E seq \in SeqsUpTo(ComposeArgs(quotes), MaxSeq) :
             Fresh /\ JoinCall(seq, quotes, passing)

SpecCompose == InitCompose /\ [][NextCompose]_vars

(* Chains of calls, with arguments that are texts, Markup values (the      *)
(* receiver itself among them) and objects that are no text.               *)

TaintTexts == {Lit(t, "trusted") : t \in {<<"<", "%", "s", ">">>, <<"&", "\"">>}}

TaintArgs(quotes) ==
    LET src == IF quotes THEN "plain" ELSE "plainNQ"
    IN {Unicode(Lit(<<"<", "\"">>, src)), Unicode(Lit(<<"&">>, src)), Unicode(<<>>),
        Object(TRUE, src), Object(FALSE, src), self}

InitTaint == InitMarkup(TaintTexts)

\* The chain may grow by one more call.
Chained == nops < MaxOps

NextTaint ==
    \/ \E template \in TaintTexts, rest \in SeqsUpTo(TaintArgs(TRUE), 1) :
          Chained /\ NewCall(Unicode(template), rest)
    \/ \E items \in SeqsUpTo(TaintArgs(TRUE), 1) : Chained /\ ModCall(Tuple(items))
    \/ \E single \in TaintArgs(TRUE) : Chained /\ ModCall(single)
    \/ \E quotes \in BOOLEAN, passing \in Passings :
          \E seq \in SeqsUpTo(TaintArgs(quotes), MaxSeq) :
             Chained /\ JoinCall(seq, quotes, passing)
    \/ \E other \in TaintArgs(TRUE) : Chained /\ ConcatCall(other)
    \/ \E num \in 0..MaxMul : Chained /\ MulCall(num)
    \/ \E quotes \in BOOLEAN, passing \in Passings :
          \E text \in TaintArgs(quotes) : Chained /\ EscapeClassCall(text, quotes, passing)

SpecTaint == InitTaint /\ [][NextTaint]_vars

-----------------------------------------------------------------------------
(* _PushbackIterator.  The wrapped source is an iterator over a finite     *)
(* sequence: iterable holds the items it has not given yet.  An iterator   *)
(* value is the record [iterable, buf]; a call gives the value after it    *)
(* and what it returned.  NoItem is the NULL that reports end-of-sequence. *)

NoItem == 0

Items == 1..MaxSource

\* PyIter_Next(iterable)
PyIter_Next(source) ==
    IF source = <<>>
    THEN [item |-> NoItem, rest |-> <<>>]
    ELSE [item |-> Head(source), rest |-> Tail(source)]

\* __PushbackIterator_init
_PushbackIterator_init(source) == [iterable |-> source, buf |-> <<>>]

\* A next() that asks the source first and turns to the buffer when it is exhausted.
_PushbackIterator_nextSourceFirst(it) ==
    IF it.iterable # <<>>
    THEN LET got == PyIter_Next(it.iterable)
         IN [iterable |-> got.rest, buf |-> it.buf, item |-> got.item]
    ELSE IF Len(it.buf) # 0
    THEN [iterable |-> it.iterable, buf |-> Tail(it.buf), item |-> it.buf[1]]
    ELSE [iterable |-> it.iterable, buf |-> it.buf, item |-> NoItem]

\* __PushbackIterator_next
_PushbackIterator_next(it) ==
    IF Len(it.buf) # 0
    THEN [iterable |-> it.iterable, buf |-> Tail(it.buf), item |-> it.buf[1]]
    ELSE LET got == PyIter_Next(it.iterable)
         IN [iterable |-> got.rest, buf |-> it.buf, item |-> got.item]

\* A pushback() that puts the item in front of the pending ones.
_PushbackIterator_pushbackFront(it, item) ==
    [iterable |-> it.iterable, buf |-> <<item>> \o it.buf]

\* A pushback() that hands the item back to the source.
_PushbackIterator_pushbackToSource(it, item) ==
    [iterable |-> <<item>> \o it.iterable, buf |-> it.buf]

\* __PushbackIterator_pushback
_PushbackIterator_pushback(it, item) ==
    [iterable |-> it.iterable, buf |-> Append(it.buf, item)]

Remember(event) ==
    LET all == Append(trace, event)
    IN IF Len(all) > TraceLen THEN Tail(all) ELSE all

InitIter ==
    /\ \E n \in 0..MaxSource :
          LET it == _PushbackIterator_init([i \in 1..n |-> i])
          IN iterable = it.iterable /\ buf = it.buf
    /\ signalled = FALSE
    /\ trace = <<>>
    /\ arg = NULL
    /\ self = NULL
    /\ call = NoCall
    /\ ret = NULL
    /\ nops = 0

NextItem ==
    LET after == _PushbackIterator_next([iterable |-> iterable, buf |-> buf])
    IN /\ iterable' = after.iterable
       /\ buf' = after.buf
       /\ signalled' = (signalled \/ after.item = NoItem)
       /\ trace' = Remember([op |-> "next", item |-> after.item, pending |-> Len(buf)])
       /\ UNCHANGED <<arg, self, call, ret, nops>>

Pushback(item) ==
    /\ Len(buf) < MaxBuf
    /\ LET after == _PushbackIterator_pushback([iterable |-> iterable, buf |-> buf], item)
       IN /\ iterable' = after.iterable
          /\ buf' = after.buf
    /\ trace' = Remember([op |-> "pushback", item |-> item, pending |-> Len(buf)])
    /\ UNCHANGED <<signalled, arg, self, call, ret, nops>>

NextIter ==
    \/ NextItem
    \/ \E item \in Items : Pushback(item)

SpecIter == InitIter /\ [][NextIter]_vars

-----------------------------------------------------------------------------
(* Properties of the escaping engine *)

\* The image of one character under escaping, as the specification gives it.
ImageOf(c, quotes) ==
    CASE c = "&" -> <<"&", "a", "m", "p", ";">>
      [] c = "<" -> <<"&", "l", "t", ";">>
      [] c = ">" -> <<"&", "g", "t", ";">>
      [] c = "\"" /\ quotes -> <<"&", "#", "3", "4", ";">>
      [] OTHER -> <<c>>

RECURSIVE Images(_, _)
Images(t, quotes) ==
    IF t = <<>> THEN <<>> ELSE ImageOf(Head(t), quotes) \o Images(Tail(t), quotes)

Entities ==
    { <<"&", "a", "m", "p", ";">>, <<"&", "l", "t", ";">>,
      <<"&", "g", "t", ";">>, <<"&", "#", "3", "4", ";">> }

DecodedOf(e) ==
    CASE e = <<"&", "a", "m", "p", ";">> -> "&"
      [] e = <<"&", "l", "t", ";">> -> "<"
      [] e = <<"&", "g", "t", ";">> -> ">"
      [] OTHER -> "\""

EntityAt(t, i) == {e \in Entities : i + Len(e) - 1 <= Len(t) /\ SubSeq(t, i, i + Len(e) - 1) = e}

\* One simultaneous left-to-right replacement of the four entities.
RECURSIVE DecodeOnce(_, _)
DecodeOnce(t, i) ==
    IF i > Len(t) THEN <<>>
    ELSE IF EntityAt(t, i) # {}
    THEN LET e == CHOOSE e \in EntityAt(t, i) : TRUE
         IN <<DecodedOf(e)>> \o DecodeOnce(t, i + Len(e))
    ELSE <<t[i]>> \o DecodeOnce(t, i + 1)

\* C1: unescape(escape(T, quotes on)) is T for every plain text T, entity-looking
\* text included.
RoundTrip ==
    (/\ call.op = "unescape"
     /\ call.passing \in {"escape", "Markup.escape"}
     /\ call.quotes
     /\ arg.type = "unicode")
        => /\ ret.type = "unicode"
           /\ Str(ret.str) = Str(arg.str)

\* The round trip of the text &lt; has happened: it was escaped to &amp;lt; and
\* unescaped back.
RoundTripWitness ==
    /\ call.op = "unescape"
    /\ call.passing = "escape"
    /\ call.quotes
    /\ arg.type = "unicode"
    /\ Str(arg.str) = <<"&", "l", "t", ";">>
    /\ Str(call.input.str) = <<"&", "a", "m", "p", ";", "l", "t", ";">>
    /\ Str(ret.str) = <<"&", "l", "t", ";">>

\* C2: escape of a plain text is the concatenation of the images of its
\* characters; the result holds no raw < or >, each & in it starts an entity,
\* and it holds no raw " when quotes are escaped.
EscapeIsPerCharacter ==
    (call.op = "escape" /\ arg.type = "unicode")
        => LET out == Str(ret.str)
           IN /\ ret.type = "Markup"
              /\ out = Images(Str(arg.str), call.quotes)
              /\ \A i \in 1..Len(out) :
                    /\ out[i] \notin {"<", ">"}
                    /\ out[i] = "&" => EntityAt(out, i) # {}
                    /\ call.quotes => out[i] # "\""

\* escape of the text &amp;" without quote escaping has given &amp;amp;".
EscapeIsPerCharacterWitness ==
    /\ call.op = "escape"
    /\ ~call.quotes
    /\ arg.type = "unicode"
    /\ Str(arg.str) = <<"&", "a", "m", "p", ";", "\"">>
    /\ Str(ret.str) = <<"&", "a", "m", "p", ";", "a", "m", "p", ";", "\"">>

\* C3: Markup.escape of a Markup value returns a Markup value of the same
\* content, whatever the flag and however it is passed.
EscapeOfMarkupIsNoOp ==
    (call.op = "Markup.escape" /\ arg.type = "Markup")
        => /\ ret.type = "Markup"
           /\ ret.str = arg.str

\* C7: unescape is one simultaneous left-to-right decoding of the four
\* entities; nothing it has decoded is decoded again.
UnescapeIsOnePass ==
    call.op = "unescape"
        => /\ ret.type = "unicode"
           /\ Str(ret.str) = DecodeOnce(Str(call.input.str), 1)

\* The Markup value &amp;lt; has been unescaped, to &lt;.
UnescapeIsOnePassWitness ==
    /\ call.op = "unescape"
    /\ call.passing = "init"
    /\ Str(call.input.str) = <<"&", "a", "m", "p", ";", "l", "t", ";">>
    /\ Str(ret.str) = <<"&", "l", "t", ";">>

\* The characters escape replaces under the flag.
RequiresEscaping(c, quotes) == c \in {"&", "<", ">"} \/ (quotes /\ c = "\"")

\* C11: Markup.escape of a plain text with no character to escape under the
\* flag, the empty text included, returns a Markup value whose content is
\* that text, for either flag however it is passed.
EscapeOfCleanTextIsIdentity ==
    (/\ call.op = "Markup.escape"
     /\ arg.type = "unicode"
     /\ \A i \in 1..Len(arg.str) : ~RequiresEscaping(arg.str[i].c, call.quotes))
        => /\ ret # NULL
           /\ ret.type = "Markup"
           /\ Str(ret.str) = Str(arg.str)

\* The number of characters the second loop writes for in[from..to].
RECURSIVE WrittenBy(_, _, _, _)
WrittenBy(in, quotes, from, to) ==
    IF from > to THEN 0
    ELSE Len(EscapePiece(in[from], quotes)) + WrittenBy(in, quotes, from + 1, to)

\* C12: the two passes of escape agree.  The length the first pass computes
\* is the number of characters the second pass writes for the same text and
\* flag; at every iteration of the second pass the write position plus the
\* size of the piece is at most the allocated length; when the second pass
\* ends the write position is the allocated length exactly, and no
\* allocated character is left unwritten.
TwoPassConsistency ==
    call.op = "escape"
        => /\ call.pc # "undefined"
           /\ call.pc = "first"
                 => call.len = WrittenBy(call.in.str, call.quotes, 1, call.i)
           /\ call.pc \in {"second", "written"}
                 => /\ Len(call.out) = call.len
                    /\ call.len = WrittenBy(call.in.str, call.quotes, 1, Len(call.in.str))
                    /\ call.outp = WrittenBy(call.in.str, call.quotes, 1, call.i)
           /\ (call.pc = "second" /\ call.i < Len(call.in.str))
                 => call.outp + Len(EscapePiece(call.in.str[call.i + 1], call.quotes))
                        <= Len(call.out)
           /\ call.pc = "written"
                 => /\ call.outp = Len(call.out)
                    /\ \A k \in 1..Len(call.out) : call.out[k].src # "uninit"
           /\ (call.pc = "returned" /\ call.in # NULL)
                 => call.len = WrittenBy(call.in.str, call.quotes, 1, Len(call.in.str))

\* The second pass has ended for the text &<" with quotes escaped: fourteen
\* characters were allocated and fourteen written.
TwoPassWitness ==
    /\ call.op = "escape"
    /\ call.pc = "written"
    /\ call.quotes
    /\ Str(call.in.str) = <<"&", "<", "\"">>
    /\ call.len = 14
    /\ call.outp = 14
    /\ Str(call.out) = <<"&", "a", "m", "p", ";", "&", "l", "t", ";", "&", "#", "3", "4", ";">>
    /\ ret.type = "Markup"

\* The activation run to its end returns what escape, taken as a function, returns.
TwoPassReturnsEscape ==
    (call.op = "escape" /\ call.pc \in {"returned", "written"})
        => ret = escape(arg, call.quotes)

-----------------------------------------------------------------------------
(* Properties of composition *)

\* The image of an argument: a Markup value goes in as it is, anything else escaped.
ImageOfObject(o, quotes) ==
    IF o.type = "Markup" THEN Str(o.str) ELSE Images(Str(o.str), quotes)

\* Every % of the template belongs to a placeholder %s.
OnlyPlaceholders(tpl) ==
    \A i \in 1..Len(tpl) :
        tpl[i] = "%" => /\ i < Len(tpl)
                        /\ tpl[i + 1] = "s"
                        /\ (i > 1 => tpl[i - 1] # "%")

\* The literal stretches of a template, between its placeholders.
RECURSIVE Stretches(_, _, _)
Stretches(tpl, i, cur) ==
    IF i > Len(tpl) THEN <<cur>>
    ELSE IF tpl[i] = "%" THEN <<cur>> \o Stretches(tpl, i + 2, <<>>)
    ELSE Stretches(tpl, i + 1, Append(cur, tpl[i]))

RECURSIVE Filled(_, _, _)
Filled(lits, imgs, i) ==
    IF i > Len(imgs) THEN lits[i] ELSE lits[i] \o imgs[i] \o Filled(lits, imgs, i + 1)

RECURSIVE Interleaved(_, _)
Interleaved(sep, imgs) ==
    IF imgs = <<>> THEN <<>>
    ELSE IF Len(imgs) = 1 THEN imgs[1]
    ELSE imgs[1] \o sep \o Interleaved(sep, Tail(imgs))

\* C4: Markup(template, args...) and template % args give the template with
\* its i-th placeholder replaced by the image of the i-th argument, the
\* template's own text unescaped; a lone non-tuple argument of % gives what
\* the one-element tuple holding it gives.
SubstitutionSemantics ==
    call.op \in {"new", "mod"}
        => LET tpl == Str(call.recv.str)
               given == IF call.input.type = "tuple" THEN call.input.items ELSE <<call.input>>
               lits == Stretches(tpl, 1, <<>>)
               imgs == [i \in 1..Len(given) |-> ImageOfObject(given[i], TRUE)]
           IN /\ (OnlyPlaceholders(tpl) /\ Len(lits) = Len(given) + 1)
                    => /\ ret.type = "Markup"
                       /\ Str(ret.str) = Filled(lits, imgs, 1)
              /\ (call.op = "mod" /\ call.input.type # "tuple")
                    => ret = Markup_mod(call.recv, Tuple(<<call.input>>))

\* The template %s<%s has been formatted with the tuple of the plain text <
\* and the Markup value <b>.
SubstitutionWitness ==
    /\ call.op = "mod"
    /\ Str(call.recv.str) = <<"%", "s", "<", "%", "s">>
    /\ call.input.type = "tuple"
    /\ Len(call.input.items) = 2
    /\ call.input.items[1].type = "unicode"
    /\ Str(call.input.items[1].str) = <<"<">>
    /\ call.input.items[2].type = "Markup"
    /\ Str(ret.str) = <<"&", "l", "t", ";", "<", "<", "b", ">">>

\* C5: s.join(seq, q) is the images of the elements with s between them: a
\* plain element escaped under q, a Markup element and s itself unchanged.
JoinSemantics ==
    call.op = "join"
        => LET given == call.input.items
               imgs == [i \in 1..Len(given) |-> ImageOfObject(given[i], call.quotes)]
           IN /\ ret.type = "Markup"
              /\ Str(ret.str) = Interleaved(Str(call.recv.str), imgs)

\* The plain text &"x and the Markup value <b> have been joined with the
\* separator < and quote escaping off.
JoinWitness ==
    /\ call.op = "join"
    /\ ~call.quotes
    /\ Str(call.recv.str) = <<"<">>
    /\ Len(call.input.items) = 2
    /\ call.input.items[1].type = "unicode"
    /\ call.input.items[2].type = "Markup"
    /\ Str(ret.str) = <<"&", "a", "m", "p", ";", "\"", "x", "<", "<", "b", ">">>

\* The characters from position i on are an entity that escape wrote.
WrittenEntityAt(u, i) ==
    \E e \in Entities :
        /\ i + Len(e) - 1 <= Len(u)
        /\ \A k \in 1..Len(e) : u[i + k - 1].c = e[k] /\ u[i + k - 1].src = "const"

Untainted(m) ==
    m.type = "Markup"
        => \A i \in 1..Len(m.str) :
              LET ch == m.str[i]
              IN /\ ch.src # "uninit"
                 /\ ch.c \in {"<", ">"} => ch.src = "trusted"
                 /\ ch.c = "&" => ch.src = "trusted" \/ WrittenEntityAt(m.str, i)
                 /\ ch.c = "\"" => ch.src \in {"trusted", "plainNQ"}

\* C6: in every Markup value a chain of calls produces, a raw &, < or > (and
\* a raw " under quote escaping) comes from a trusted input or is the & of an
\* entity that escape wrote; none comes from a plain argument.
TaintInvariant == Untainted(self) /\ Untainted(ret)

-----------------------------------------------------------------------------
(* Properties of _PushbackIterator *)

\* The call a step has just made.
Latest(t) == t[Len(t)]

\* The last n calls, oldest first, when that many are remembered.
Recent(n) == SubSeq(trace, Len(trace) - n + 1, Len(trace))

\* C8: next() returns and removes the oldest pending item and leaves the
\* source alone; it pulls from the source only when nothing is pending;
\* pushback() appends and never moves the source; so items pushed back as a
\* then b onto an empty buffer come back as a then b.
FifoReplay ==
    /\ [][LET e == Latest(trace')
          IN /\ (e.op = "next" /\ buf # <<>>)
                   => /\ e.item = Head(buf)
                      /\ buf' = Tail(buf)
                      /\ iterable' = iterable
             /\ (e.op = "next" /\ buf = <<>>)
                   => /\ buf' = <<>>
                      /\ iterable # <<>> => e.item = Head(iterable) /\ iterable' = Tail(iterable)
                      /\ iterable = <<>> => e.item = NoItem /\ iterable' = iterable
             /\ e.op = "pushback"
                   => /\ buf' = Append(buf, e.item)
                      /\ iterable' = iterable]_vars
    /\ [](Len(trace) >= 4
            => LET r == Recent(4)
               IN (/\ r[1].op = "pushback" /\ r[1].pending = 0
                   /\ r[2].op = "pushback"
                   /\ r[3].op = "next"
                   /\ r[4].op = "next")
                      => r[3].item = r[1].item /\ r[4].item = r[2].item)

\* 1 and then 2 were pushed back onto an empty buffer with the source not
\* exhausted, and the next two calls returned 1 and then 2.
FifoReplayWitness ==
    /\ Len(trace) >= 4
    /\ iterable # <<>>
    /\ LET r == Recent(4)
       IN /\ r[1] = [op |-> "pushback", item |-> 1, pending |-> 0]
          /\ r[2] = [op |-> "pushback", item |-> 2, pending |-> 1]
          /\ r[3] = [op |-> "next", item |-> 1, pending |-> 2]
          /\ r[4] = [op |-> "next", item |-> 2, pending |-> 1]

\* C9 as claimed: once next() has reported end-of-sequence, every later
\* next() reports it too, whatever was pushed back in between.
ExhaustionIsPermanent ==
    [][(signalled /\ Latest(trace').op = "next") => Latest(trace').item = NoItem]_vars

\* C9 as amended: once next() has reported end-of-sequence, every later
\* next() made with nothing pending reports it too, and one made with items
\* pending returns the oldest of them.
ExhaustionIsPermanentWhileEmpty ==
    [][(signalled /\ Latest(trace').op = "next")
          => /\ buf = <<>> => Latest(trace').item = NoItem
             /\ buf # <<>> => Latest(trace').item = Head(buf)]_vars

\* After end-of-sequence an item was pushed back and returned, and the next
\* call reported end-of-sequence again.
ExhaustionWitness ==
    /\ Len(trace) >= 4
    /\ LET r == Recent(4)
       IN /\ r[1].op = "next" /\ r[1].item = NoItem
          /\ r[2].op = "pushback"
          /\ r[3].op = "next" /\ r[3].item = r[2].item
          /\ r[4].op = "next" /\ r[4].item = NoItem

\* next() gave x, x was pushed back at once, and next() was called again.
Peeked(r) ==
    /\ r[1].op = "next" /\ r[1].item # NoItem
    /\ r[2].op = "pushback" /\ r[2].item = r[1].item
    /\ r[3].op = "next"

\* C10 as claimed: an item pushed back right after next() returned it is what
\* the next next() returns, however many items are pending.
PushbackIsPeek ==
    Len(trace) >= 3 => LET r == Recent(3) IN Peeked(r) => r[3].item = r[1].item

\* C10 as amended: the same, when nothing else is pending at the pushback.
PushbackIsPeekWhenNothingPending ==
    Len(trace) >= 3
        => LET r == Recent(3) IN (Peeked(r) /\ r[2].pending = 0) => r[3].item = r[1].item

\* An item taken from the source was pushed back onto the empty buffer and
\* returned again, with the source not exhausted.
PeekWitness ==
    /\ Len(trace) >= 3
    /\ iterable # <<>>
    /\ LET r == Recent(3)
       IN Peeked(r) /\ r[1].pending = 0 /\ r[2].pending = 0 /\ r[3].item = r[1].item

====
